---- MODULE Spec2Model ----
(***************************************************************************)
(* A model of bmex.py: the download of BitMEX historical data (bars,       *)
(* quotes, trades) into one CSV file per symbol, channel and day.          *)
(*                                                                         *)
(* Time.  A datetime is a number of minutes since 2014-11-22 00:00, the    *)
(* earliest date the provider serves; a date is a number of days since     *)
(* 2014-11-22.  The injected clock of the sleeps counts seconds.           *)
(*                                                                         *)
(* Text.  A Python string is a sequence of tokens (TLA+ strings); a CSV    *)
(* line is a sequence of such strings.  A timestamp is the three tokens    *)
(* <<date, separator, time of day>>.                                       *)
(***************************************************************************)
EXTENDS Integers, Sequences, FiniteSets, TLC

(***************************************************************************)
(* Bounds of the model.                                                    *)
(***************************************************************************)
\* the last day (index) a caller names as --start or --end
MaxDay == 1
\* how many times the program is run over the same destination
MaxRuns == 2
\* how many 429 answers the bar API gives during one run
Max429 == 1
\* how many archive requests for one day the model follows
MaxAttempts == 11
\* the number of days of the long range of the rate-limit specification
RateDays == 11

(***************************************************************************)
(* Constants of the program.                                               *)
(***************************************************************************)
\* timedelta(days=1), in minutes
Day == 1440
\* count=500 of bars_endpoint: the most rows one request returns
Count == 500
\* "30 is the maximum number of requests allowed per minute"
ReqLimit == 30
\* time.sleep(60) of the pacing
PaceSleep == 60
\* a slip: half the cooldown after a 429
HalfCooldown == PaceSleep \div 2
\* time.sleep(60) after a 429
ThrottleSleep == 60
\* time.sleep(1) after an empty page
EmptySleep == 1
\* time.sleep(10) between two attempts at an archive
RetryPause == 10
\* if count == 10
RetryCap == 10

None == <<>>

bars_header ==
    << "timestamp", "symbol", "open", "high", "low", "close", "trades",
       "volume", "vwap", "lastSize", "turnover", "homeNotional",
       "foreignNotional" >>

quotes_header ==
    << "timestamp", "symbol", "bidSize", "bidPrice", "askPrice", "askSize" >>

trades_header ==
    << "timestamp", "symbol", "side", "size", "price", "tickDirection",
       "trdMatchID", "grossValue", "homeNotional", "foreignNotional" >>

\* csv.writer / DictWriter.writeheader: one cell per field name
HeaderLine(h) == [i \in 1..Len(h) |-> << h[i] >>]

(***************************************************************************)
(* Dates: 2014-11-22 is day 0; November has 30 days.                       *)
(***************************************************************************)
Year(d) == 2014
Month(d) == IF 22 + d <= 30 THEN 11 ELSE 12
DayOfMonth(d) == IF 22 + d <= 30 THEN 22 + d ELSE d - 8

Pad2(n) == IF n < 10 THEN "0" \o ToString(n) ELSE ToString(n)

\* strftime("%Y%m%d") cut into d[:4]-d[4:6]-d[6:]
DateStr(d) ==
    ToString(Year(d)) \o "-" \o Pad2(Month(d)) \o "-" \o Pad2(DayOfMonth(d))

\* datetime.date()
DateOf(t) == t \div Day

\* the days the model can name in a timestamp or a path
DayUniverse == 0 .. (RateDays + MaxDay + 2)

\* dateutil's parse(...).date() of a timestamp <<date, separator, time>>
ParseDate(ts) == CHOOSE d \in DayUniverse : DateStr(d) = ts[1]

\* the timestamp string of the instant t, with the separator sep
Stamp(t, sep) == << DateStr(DateOf(t)), sep, ToString(t % Day) >>

\* a slip: the separator is left as the archive has it
KeepsD(s) == s

\* str.replace("D", "T", 1): the first "D" becomes "T"
RECURSIVE ReplaceFirstD(_)
ReplaceFirstD(s) ==
    IF s = << >> THEN << >>
    ELSE IF Head(s) = "D" THEN << "T" >> \o Tail(s)
    ELSE << Head(s) >> \o ReplaceFirstD(Tail(s))

\* an f-string's rendering of a string: its tokens, joined
RECURSIVE Join(_)
Join(s) == IF s = << >> THEN "" ELSE Head(s) \o Join(Tail(s))

(***************************************************************************)
(* _validate_dates: the pair the program goes on with, or an exit.         *)
(***************************************************************************)
min_date == 0

Accepts(s, e) == ~(s < min_date) /\ ~(e < s)

ValidEnd(e, now) == IF e > now THEN now ELSE e

(***************************************************************************)
(* The destination: files maps each path that exists to its lines.  A      *)
(* disk is the record [files, touched, stale]: touched holds the paths     *)
(* written during the current run, stale the paths whose first write of    *)
(* the run was appended to a file left by an earlier run.                  *)
(***************************************************************************)
Exists(disk, p) == p \in DOMAIN disk.files

\* os.remove(_file), behind os.path.exists(_file)
RemoveIfExists(disk, p) ==
    [disk EXCEPT !.files = [q \in (DOMAIN disk.files) \ {p} |-> disk.files[q]]]

\* open(_file, "a") and one writerow
AppendLine(disk, p, line) ==
    [files   |-> IF Exists(disk, p)
                 THEN [disk.files EXCEPT ![p] = Append(@, line)]
                 ELSE disk.files @@ (p :> << line >>),
     touched |-> disk.touched \cup {p},
     stale   |-> IF p \notin disk.touched /\ Exists(disk, p)
                 THEN disk.stale \cup {p} ELSE disk.stale]

(***************************************************************************)
(* _store_quotes_trades                                                    *)
(***************************************************************************)
\* location and _file of a quote/trade row: the day is the archive's day
QuotesTradesFile(symbol, channel, start) ==
    << Join(symbol), channel \o "s", ToString(Year(DateOf(start))),
       ToString(Month(DateOf(start))), DateStr(DateOf(start)) \o ".csv" >>

\* the body of "for row in reader" for one row; acc = [disk, new, header]
StoreQuotesTradesRow(acc, raw, start, symbols, channel) ==
    LET row   == [raw EXCEPT ![1] = ReplaceFirstD(@)]
        sym   == row[2]
        file  == QuotesTradesFile(sym, channel, start)
        d1    == IF acc.new THEN RemoveIfExists(acc.disk, file) ELSE acc.disk
        h     == IF channel = "trade" THEN trades_header ELSE quotes_header
        d2    == IF acc.header[sym] THEN AppendLine(d1, file, HeaderLine(h)) ELSE d1
    IN  IF sym \in symbols
        THEN [disk   |-> AppendLine(d2, file, row),
              new    |-> FALSE,
              header |-> [acc.header EXCEPT ![sym] = FALSE]]
        ELSE acc

RECURSIVE StoreQuotesTradesFrom(_, _, _, _, _, _)
StoreQuotesTradesFrom(i, acc, rows, start, symbols, channel) ==
    IF i > Len(rows) THEN acc
    ELSE StoreQuotesTradesFrom(
             i + 1, StoreQuotesTradesRow(acc, rows[i], start, symbols, channel),
             rows, start, symbols, channel)

\* a slip: the rows of every symbol of the archive are stored
StoreEverySymbol(disk, rows, start, symbols, channel) ==
    LET every == {rows[i][2] : i \in 2..Len(rows)}
    IN  StoreQuotesTradesFrom(
            1, [disk |-> disk, new |-> TRUE, header |-> [s \in every |-> TRUE]],
            rows, start, every, channel).disk

\* the disk after _store_quotes_trades has gone through the unzipped rows
StoreQuotesTrades(disk, rows, start, symbols, channel) ==
    StoreQuotesTradesFrom(
        1, [disk |-> disk, new |-> TRUE, header |-> [s \in symbols |-> TRUE]],
        rows, start, symbols, channel).disk

(***************************************************************************)
(* _store_bars                                                             *)
(***************************************************************************)
BarsFile(symbol, channel, bar, date) ==
    << Join(symbol), channel, bar, ToString(Year(date)),
       ToString(Month(date)), DateStr(date) \o ".csv" >>

\* csv.DictWriter(f, fieldnames=bars_header).writerow(row)
DictLine(row) ==
    [i \in 1..Len(bars_header) |->
        IF bars_header[i] \in DOMAIN row THEN row[bars_header[i]] ELSE << >>]

\* a slip: the end of the request, end + 1 day, taken for the end date
OvershootsLate(date, end) == date > DateOf(end + Day)

\* "if date > end.date(): return"
Overshoots(date, end) == date > DateOf(end)

\* a slip: the file of a new date is never removed
IsNewNever(date, header) == FALSE

\* "new = True if date != header else False"; header is None or <<date>>
IsNew(date, header) == << date >> # header

\* the body of "for row in data" for one row that is stored
StoreBarsRow(disk, row, date, symbol, channel, bar, header) ==
    LET file == BarsFile(symbol, channel, bar, date)
        d1   == IF IsNew(date, header) THEN RemoveIfExists(disk, file) ELSE disk
        d2   == IF header # << date >>
                THEN AppendLine(d1, file, HeaderLine(bars_header)) ELSE d1
    IN  AppendLine(d2, file, DictLine(row))

\* [disk, stored]: stored is what _store_bars returns, None after "return"
RECURSIVE StoreBarsFrom(_, _, _, _, _, _, _, _)
StoreBarsFrom(i, disk, header, data, end, symbol, channel, bar) ==
    IF i > Len(data) THEN [disk |-> disk, stored |-> header]
    ELSE LET date == ParseDate(data[i]["timestamp"])
         IN  IF Overshoots(date, end) THEN [disk |-> disk, stored |-> None]
             ELSE StoreBarsFrom(
                      i + 1,
                      StoreBarsRow(disk, data[i], date, symbol, channel, bar, header),
                      << date >>, data, end, symbol, channel, bar)

StoreBars(disk, data, end, symbol, channel, bar, header) ==
    StoreBarsFrom(1, disk, header, data, end, symbol, channel, bar)

(***************************************************************************)
(* The state.                                                              *)
(***************************************************************************)
VARIABLES
    \* what main goes on with after _transform_validate
    symbols,    \* the requested symbols, in the order the set is iterated
    channels,   \* the requested channels
    bars,       \* the requested resolutions, in the order given
    start, end, \* the validated range (datetimes)
    today,      \* dt.today()
    \* the providers
    held,       \* the instants of the bars the query API holds
    archive,    \* the rows of a day's archive: <<symbol, offset in minutes>>
    source,     \* the status codes the archive source answers with
    \* main
    pc,         \* where the program is
    run,        \* the number of the current run over the destination
    report,     \* main's report: channel -> status line
    printed,    \* None, or <<the report as printed>>
    clock,      \* the injected clock, in seconds
    \* poll_quotes_trades
    channel,    \* "trade" or "quote"
    day,        \* the local start: the day being fetched
    count,      \* the failed attempts at the current day
    status,     \* the status code of the last answer
    attempts,   \* the clock at each request for the current day
    \* poll_bars
    symIdx, barIdx, \* the position of the two for loops
    st,         \* the cursor
    req,        \* the request counter
    sent,       \* the requests that this call of poll_bars has sent
    header,     \* None or <<date>>: the date the last header was written for
    error,      \* the last answer was a 429
    n429,       \* the 429 answers given during this run
    window,     \* the clock at each request of the last 60 seconds
    page,       \* the rows of the last answer of the query API
    \* the destination
    files, touched, stale,
    snaps       \* the files at the end of each completed run

inputs == << symbols, channels, bars, start, end, today, held, archive, source >>
mainVars == << run, report, printed >>
qtVars == << channel, day, count, status, attempts >>
pbVars == << symIdx, barIdx, st, req, sent, header, error, n429, window, page >>
diskVars == << files, touched, stale >>
vars == << inputs, pc, mainVars, clock, qtVars, pbVars, diskVars, snaps >>

Disk == [files |-> files, touched |-> touched, stale |-> stale]

SetDisk(d) ==
    /\ files' = d.files
    /\ touched' = d.touched
    /\ stale' = d.stale

Range(s) == {s[i] : i \in DOMAIN s}

Success == << "Success - all data downloaded and stored." >>

\* f"Failed to download: {start.date()} - data not (yet) available."
NotYetAvailable(t) ==
    << "Failed to download: ", DateStr(DateOf(t)), " - data not (yet) available." >>

(***************************************************************************)
(* The state main starts a run in: _transform_validate has accepted the    *)
(* dates s and e on the day now.                                           *)
(***************************************************************************)
Start(syms, chans, bs, s, e, now, hd, ar, src) ==
    /\ Accepts(s, e)
    /\ symbols = syms /\ channels = chans /\ bars = bs
    /\ start = s /\ end = ValidEnd(e, now) /\ today = now
    /\ held = hd /\ archive = ar /\ source = src
    /\ pc = "main_trades" /\ run = 1 /\ report = << >> /\ printed = None
    /\ clock = 0
    /\ channel = "trade" /\ day = s /\ count = 0 /\ status = 200
    /\ attempts = << >>
    /\ symIdx = 1 /\ barIdx = 1 /\ st = s /\ req = 0 /\ header = None
    /\ error = FALSE /\ n429 = 0 /\ window = << >> /\ page = << >>
    /\ sent = 0
    /\ files = << >> /\ touched = {} /\ stale = {}
    /\ snaps = << >>

(***************************************************************************)
(* main                                                                    *)
(***************************************************************************)
EnterQuotesTrades(ch) ==
    /\ pc' = "poll_quotes_trades"
    /\ channel' = ch /\ day' = start /\ count' = 0 /\ attempts' = << >>
    /\ UNCHANGED status

EnterBars ==
    /\ pc' = "poll_bars"
    /\ req' = 0 /\ header' = None /\ error' = FALSE
    /\ symIdx' = 1 /\ barIdx' = 1 /\ st' = start
    /\ window' = << >> /\ page' = << >>
    /\ sent' = 0
    /\ UNCHANGED n429

\* if "trades" in channels: report["trades"] = poll_quotes_trades(...)
MainTrades ==
    /\ pc = "main_trades"
    /\ IF "trades" \in channels
       THEN EnterQuotesTrades("trade")
       ELSE pc' = "main_quotes" /\ UNCHANGED qtVars
    /\ UNCHANGED << inputs, mainVars, clock, pbVars, diskVars, snaps >>

\* if "quotes" in channels: report["quotes"] = poll_quotes_trades(...)
MainQuotes ==
    /\ pc = "main_quotes"
    /\ IF "quotes" \in channels
       THEN EnterQuotesTrades("quote")
       ELSE pc' = "main_bars" /\ UNCHANGED qtVars
    /\ UNCHANGED << inputs, mainVars, clock, pbVars, diskVars, snaps >>

\* if "bars" in channels: report["bars"] = poll_bars(...)
MainBars ==
    /\ pc = "main_bars"
    /\ IF "bars" \in channels
       THEN EnterBars
       ELSE pc' = "main_report" /\ UNCHANGED pbVars
    /\ UNCHANGED << inputs, mainVars, clock, qtVars, diskVars, snaps >>

\* the report is printed and the program ends
MainReport ==
    /\ pc = "main_report"
    /\ pc' = "done"
    /\ printed' = << report >>
    /\ snaps' = Append(snaps, files)
    /\ UNCHANGED << inputs, run, report, clock, qtVars, pbVars, diskVars >>

\* the program is run again, with the same arguments, over what the
\* completed run left
Rerun ==
    /\ pc = "done"
    /\ run < MaxRuns
    /\ pc' = "main_trades" /\ run' = run + 1
    /\ report' = << >> /\ printed' = None /\ clock' = 0
    /\ channel' = "trade" /\ day' = start /\ count' = 0 /\ status' = 200
    /\ attempts' = << >>
    /\ symIdx' = 1 /\ barIdx' = 1 /\ st' = start /\ req' = 0 /\ header' = None
    /\ error' = FALSE /\ n429' = 0 /\ window' = << >> /\ page' = << >>
    /\ sent' = 0
    /\ touched' = {} /\ stale' = {}
    /\ UNCHANGED << inputs, files, snaps >>

(***************************************************************************)
(* poll_quotes_trades                                                      *)
(***************************************************************************)
\* requests' raise_for_status raises for the 4xx and 5xx codes
Raises(s) == s >= 400 /\ s < 600

\* the unzipped archive of the day t: its header line, then its rows
ArchiveRows(ch, t) ==
    << HeaderLine(IF ch = "trade" THEN trades_header ELSE quotes_header) >>
    \o [i \in 1..Len(archive) |->
           << Stamp(DateOf(t) * Day + archive[i][2], "D"), archive[i][1], << ch >> >>]

\* a slip: yesterday forgotten
IsToday(t, now) == DateOf(t) = DateOf(now)

\* start.date() == today.date() or start.date() == yesterday.date()
IsRecent(t, now) ==
    \/ DateOf(t) = DateOf(now)
    \/ DateOf(t) = DateOf(now - Day)

\* a slip: one attempt more before giving up
ExhaustedLate(c) == c = RetryCap + 1

\* "if count == 10": the attempt just counted was the last one
Exhausted(c) == c = RetryCap

\* what follows the call in main
AfterQuotesTrades == IF channel = "trade" THEN "main_quotes" ELSE "main_bars"

ChannelOf(ch) == ch \o "s"

\* one request of the day's archive is sent
Request ==
    /\ pc = "poll_quotes_trades"
    /\ day <= end
    /\ count < MaxAttempts

\* status 200: the archive is unzipped and stored, the next day follows
QtStored ==
    /\ Request
    /\ 200 \in source
    /\ status' = 200
    /\ SetDisk(StoreQuotesTrades(Disk, ArchiveRows(channel, day), day,
                                 Range(symbols), channel))
    /\ day' = day + Day
    /\ count' = 0
    /\ attempts' = << >>
    /\ UNCHANGED << inputs, pc, mainVars, clock, channel, pbVars, snaps >>

\* another status: the attempt is counted and, unless it is the tenth and
\* raise_for_status raises, repeated after 10 seconds
QtRetry ==
    /\ Request
    /\ \E s \in source \ {200} :
          /\ status' = s
          /\ Exhausted(count + 1) => ~Raises(s)
    /\ attempts' = Append(attempts, clock)
    /\ count' = count + 1
    /\ clock' = clock + RetryPause
    /\ UNCHANGED << inputs, pc, mainVars, channel, day, pbVars, diskVars, snaps >>

\* the tenth failure is a 404 for today or yesterday: the status is returned
QtNotYet ==
    /\ Request
    /\ Exhausted(count + 1)
    /\ 404 \in source
    /\ status' = 404
    /\ IsRecent(day, today)
    /\ attempts' = Append(attempts, clock)
    /\ count' = count + 1
    /\ report' = report @@ (ChannelOf(channel) :> NotYetAvailable(day))
    /\ pc' = AfterQuotesTrades
    /\ UNCHANGED << inputs, run, printed, clock, channel, day, pbVars, diskVars,
                    snaps >>

\* the tenth failure raises: nothing catches it, the program ends
QtFatal ==
    /\ Request
    /\ Exhausted(count + 1)
    /\ \E s \in source \ {200} :
          /\ status' = s
          /\ Raises(s)
          /\ ~(s = 404 /\ IsRecent(day, today))
    /\ attempts' = Append(attempts, clock)
    /\ count' = count + 1
    /\ pc' = "crashed"
    /\ UNCHANGED << inputs, mainVars, clock, channel, day, pbVars, diskVars, snaps >>

\* "while start <= end" ends: success
QtReturn ==
    /\ pc = "poll_quotes_trades"
    /\ ~(day <= end)
    /\ report' = report @@ (ChannelOf(channel) :> Success)
    /\ pc' = AfterQuotesTrades
    /\ UNCHANGED << inputs, run, printed, clock, qtVars, pbVars, diskVars, snaps >>

(***************************************************************************)
(* poll_bars                                                               *)
(***************************************************************************)
\* a slip: 500 minutes, whatever the resolution
StrideInMinutes(bar) == Count

\* "500 is the maximum number of results per request": the cursor's step
Stride(bar) ==
    IF bar = "1m" THEN 500
    ELSE IF bar = "5m" THEN 500 * 5
    ELSE IF bar = "1h" THEN 500 * 60
    ELSE 500 * Day

RECURSIVE Ascending(_)
Ascending(S) ==
    IF S = {} THEN << >>
    ELSE LET m == CHOOSE x \in S : \A y \in S : x <= y
         IN  << m >> \o Ascending(S \ {m})

FirstN(s, n) == SubSeq(s, 1, IF Len(s) < n THEN Len(s) ELSE n)

\* the answer to bars_endpoint.format(bar, symbol, startTime, endTime): the
\* first count=500 bars, reverse=false, from startTime to endTime
BarPage(symbol, bar, startTime, endTime) ==
    LET ts == FirstN(Ascending({t \in held : startTime <= t /\ t <= endTime}), Count)
    IN  [i \in 1..Len(ts) |-> [timestamp |-> Stamp(ts[i], "T"), symbol |-> symbol]]

\* a slip: the pacing sleep one request early
MustPaceEarly(r) == r % (ReqLimit - 1) = 0

\* a slip: the pacing sleep one request late
MustPaceLate(r) == r % (ReqLimit + 1) = 0

\* "if req % 30 == 0": the pacing sleep is due
MustPace(r) == r % ReqLimit = 0

\* "while st < (nd + timedelta(days=1))"
InWalk == pc = "poll_bars" /\ st < end + Day

\* the clock when the request of this iteration is sent
SentAt == IF MustPace(req + 1) THEN clock + PaceSleep ELSE clock

\* req += 1, the pacing sleep when it is due, and the request
SendBarsRequest ==
    /\ req' = IF MustPace(req + 1) THEN 0 ELSE req + 1
    /\ sent' = sent + 1
    /\ window' = Append(SelectSeq(window, LAMBDA t : t > SentAt - 60), SentAt)

\* status 429: 60 seconds of sleep, then the same cursor again
BarsThrottled ==
    /\ InWalk
    /\ n429 < Max429
    /\ SendBarsRequest
    /\ n429' = n429 + 1
    /\ error' = TRUE
    /\ clock' = SentAt + ThrottleSleep
    /\ UNCHANGED << inputs, pc, mainVars, qtVars, symIdx, barIdx, st, header,
                    page, diskVars, snaps >>

\* an empty page: the cursor moves on by one day
BarsEmpty ==
    /\ InWalk
    /\ SendBarsRequest
    /\ BarPage(symbols[symIdx], bars[barIdx], st, end + Day) = << >>
    /\ page' = << >>
    /\ error' = FALSE
    /\ st' = st + Day
    /\ clock' = SentAt + EmptySleep
    /\ UNCHANGED << inputs, pc, mainVars, qtVars, symIdx, barIdx, header, n429,
                    diskVars, snaps >>

\* a page of rows: they are stored and the cursor moves on by the stride
BarsStored ==
    /\ InWalk
    /\ SendBarsRequest
    /\ LET data == BarPage(symbols[symIdx], bars[barIdx], st, end + Day)
           out  == StoreBars(Disk, data, end, symbols[symIdx], "bars",
                             bars[barIdx], header)
       IN  /\ data # << >>
           /\ page' = data
           /\ SetDisk(out.disk)
           /\ header' = IF out.stored # None THEN out.stored ELSE header
    /\ error' = FALSE
    /\ st' = st + Stride(bars[barIdx])
    /\ clock' = SentAt
    /\ UNCHANGED << inputs, pc, mainVars, qtVars, symIdx, barIdx, n429, snaps >>

LastWalk == symIdx = Len(symbols) /\ barIdx = Len(bars)

\* the while loop ends: the next resolution, or the next symbol
BarsNextWalk ==
    /\ pc = "poll_bars"
    /\ ~(st < end + Day)
    /\ ~LastWalk
    /\ IF barIdx < Len(bars)
       THEN barIdx' = barIdx + 1 /\ UNCHANGED symIdx
       ELSE barIdx' = 1 /\ symIdx' = symIdx + 1
    /\ st' = start
    /\ UNCHANGED << inputs, pc, mainVars, clock, qtVars, req, sent, header, error,
                    n429, window, page, diskVars, snaps >>

\* both for loops end: success
BarsReturn ==
    /\ pc = "poll_bars"
    /\ ~(st < end + Day)
    /\ LastWalk
    /\ report' = report @@ ("bars" :> Success)
    /\ pc' = "main_report"
    /\ UNCHANGED << inputs, run, printed, clock, qtVars, pbVars, diskVars, snaps >>

(***************************************************************************)
(* The inputs the specifications draw from.                                *)
(***************************************************************************)
XBT == << "XBTUSD" >>
ETH == << "ETHUSD" >>
ADA == << "ADAUSD" >>

Noon(d) == d * Day + 720

\* the bars the query API may hold: one at 10:00 of each day, one at each
\* midnight (the midnight after the last day included)
Mornings == {d * Day + 600 : d \in 0..MaxDay}
Midnights == {d * Day : d \in 0..(MaxDay + 1)}
HeldChoices == { {}, Mornings, Midnights, Mornings \cup Midnights }

BarsChoices == { << "1m" >>, << "1d" >>, << "5m", "1h" >> }

\* the rows of a day's archive: the symbol and the minute of the day (a
\* minute past 1440 is a row of the next day)
ArchiveChoices ==
    { << >>,
      << << XBT, 60 >>, << ETH, 120 >>, << XBT, 180 >> >>,
      << << ETH, 60 >>, << ADA, 90 >> >>,
      << << XBT, 60 >>, << XBT, Day + 30 >> >> }

\* the archive source: always the same status, or any of them at any request
SourceChoices == { {200}, {404}, {500}, {200, 304, 404, 500} }

(***************************************************************************)
(* Spec: the whole program, every set of channels.                         *)
(***************************************************************************)
Init ==
    \E chans \in (SUBSET {"trades", "quotes", "bars"}) \ {{}},
       e \in 0..MaxDay, now \in {Noon(MaxDay), Noon(MaxDay + 2)},
       src \in {{200}, {404}, {500}} :
        Start(<< XBT, ETH >>, chans,
              IF "bars" \in chans THEN << "1d" >> ELSE << >>,
              0, e * Day, now, {MaxDay * Day + 600},
              << << XBT, 60 >>, << ETH, 120 >>, << XBT, 180 >> >>, src)

Next ==
    \/ MainTrades \/ MainQuotes \/ MainBars \/ MainReport \/ Rerun
    \/ QtStored \/ QtRetry \/ QtNotYet \/ QtFatal \/ QtReturn
    \/ BarsThrottled \/ BarsEmpty \/ BarsStored \/ BarsNextWalk \/ BarsReturn

Spec == Init /\ [][Next]_vars

(***************************************************************************)
(* SpecQuotesTrades: one bulk-dump channel, any answers of the archive     *)
(* source, any of the archives.                                            *)
(***************************************************************************)
InitQuotesTrades ==
    \E syms \in {<< XBT >>, << XBT, ETH >>}, chan \in {"trades", "quotes"},
       e \in 0..MaxDay, ar \in ArchiveChoices, src \in SourceChoices :
        \E now \in {Noon(e), Noon(e + 1), Noon(e + 2)} :
            Start(syms, {chan}, << >>, 0, e * Day, now, {}, ar, src)

NextQuotesTrades ==
    \/ MainTrades \/ MainQuotes \/ MainBars \/ MainReport \/ Rerun
    \/ QtStored \/ QtRetry \/ QtNotYet \/ QtFatal \/ QtReturn

SpecQuotesTrades == InitQuotesTrades /\ [][NextQuotesTrades]_vars

(***************************************************************************)
(* SpecBars: the bar channel alone, any of the symbol lists, resolution    *)
(* lists, ranges and provider contents.                                    *)
(***************************************************************************)
InitBars ==
    \E syms \in {<< XBT >>, << XBT, ETH >>}, bs \in BarsChoices,
       s \in 0..MaxDay, e \in 0..MaxDay, hd \in HeldChoices :
        Start(syms, {"bars"}, bs, s * Day, e * Day, Noon(MaxDay + 3), hd, << >>, {200})

NextBars ==
    \/ MainTrades \/ MainQuotes \/ MainBars \/ MainReport \/ Rerun
    \/ BarsThrottled \/ BarsEmpty \/ BarsStored \/ BarsNextWalk \/ BarsReturn

SpecBars == InitBars /\ [][NextBars]_vars

\* the program is sequential: a step that can be taken is taken.  The
\* second conjunct is WF_vars of the three steps that send a request, which
\* are enabled exactly in InWalk, written out.
SpecBarsFair ==
    /\ SpecBars
    /\ WF_vars(MainTrades \/ MainQuotes \/ MainBars \/ MainReport
                  \/ BarsNextWalk \/ BarsReturn)
    /\ \/ []<>~InWalk
       \/ []<><< BarsThrottled \/ BarsEmpty \/ BarsStored >>_vars

(***************************************************************************)
(* SpecRate: one run of the bar channel over a range long enough for more  *)
(* than 60 requests.                                                       *)
(***************************************************************************)
InitRate ==
    \E hd \in { {}, {Noon(RateDays - 1)}, {Noon(RateDays \div 2)} } :
        Start(<< XBT, ETH >>, {"bars"}, << "1m" >>, 0, (RateDays - 1) * Day,
              Noon(RateDays + 2), hd, << >>, {200})

NextRate ==
    \/ MainTrades \/ MainQuotes \/ MainBars \/ MainReport
    \/ BarsThrottled \/ BarsEmpty \/ BarsStored \/ BarsNextWalk \/ BarsReturn

SpecRate == InitRate /\ [][NextRate]_vars

(***************************************************************************)
(* SpecValidate: _validate_dates alone, on any dates of the caller, past   *)
(* or future.                                                              *)
(***************************************************************************)
\* the arguments as parsed, before _validate_dates
InitValidate ==
    \E s \in -1..(MaxDay + 2), e \in -1..(MaxDay + 2), now \in 0..(MaxDay + 1) :
        /\ symbols = << XBT >> /\ channels = {"bars"} /\ bars = << "1d" >>
        /\ start = s * Day /\ end = e * Day /\ today = Noon(now)
        /\ held = {} /\ archive = << >> /\ source = {200}
        /\ pc = "validate" /\ run = 1 /\ report = << >> /\ printed = None
        /\ clock = 0
        /\ channel = "trade" /\ day = s * Day /\ count = 0 /\ status = 200
        /\ attempts = << >>
        /\ symIdx = 1 /\ barIdx = 1 /\ st = s * Day /\ req = 0 /\ header = None
        /\ error = FALSE /\ n429 = 0 /\ window = << >> /\ page = << >>
        /\ sent = 0
        /\ files = << >> /\ touched = {} /\ stale = {}
        /\ snaps = << >>

\* sys.exit: the start is too early, or the end is before the start
ValidateExit ==
    /\ pc = "validate"
    /\ ~Accepts(start, end)
    /\ pc' = "exit"
    /\ UNCHANGED << inputs, mainVars, clock, qtVars, pbVars, diskVars, snaps >>

\* return start, end: the end is clamped to today
ValidateReturn ==
    /\ pc = "validate"
    /\ Accepts(start, end)
    /\ end' = ValidEnd(end, today)
    /\ pc' = "validated"
    /\ UNCHANGED << symbols, channels, bars, start, today, held, archive, source,
                    mainVars, clock, qtVars, pbVars, diskVars, snaps >>

NextValidate == ValidateExit \/ ValidateReturn

SpecValidate == InitValidate /\ [][NextValidate]_vars

(***************************************************************************)
(* Properties.                                                             *)
(***************************************************************************)
\* a line of a file is a header when its first cell is the field name
IsHeaderLine(line) == line[1] = << "timestamp" >>

\* the date in the name of the file p
FileDate(p) == CHOOSE d \in DayUniverse : DateStr(d) \o ".csv" = p[Len(p)]

IsBarsPath(p) == p[2] = "bars"

\* C1: the bar channel alone, one symbol, one resolution, an empty
\* destination before the first run: every further completed run over the
\* same range leaves exactly the files, with exactly the lines, that the
\* run before it left.
C1_IdempotentRerun ==
    (Len(symbols) = 1 /\ Len(bars) = 1)
        => \A i \in 1..(Len(snaps) - 1) : snaps[i + 1] = snaps[i]

\* a second run has completed over at least two files that the first left
C1_Witness ==
    /\ Len(symbols) = 1 /\ Len(bars) = 1
    /\ Len(snaps) = 2
    /\ Cardinality(DOMAIN snaps[1]) >= 2
    /\ \E p \in DOMAIN snaps[2] : Len(snaps[2][p]) >= 2

\* C2: no file of the quotes or trades channel has the first write of a run
\* appended to what an earlier run left in it.
C2_FirstTouchQuotesTrades == {p \in stale : ~IsBarsPath(p)} = {}

\* C3: no bar file has the first write of a run appended to what an earlier
\* run left in it.
C3_FirstTouchBars == {p \in stale : IsBarsPath(p)} = {}

HeaderOf(p) ==
    IF IsBarsPath(p) THEN bars_header
    ELSE IF p[2] = "trades" THEN trades_header ELSE quotes_header

\* C4: when the first run over an empty destination has completed, every
\* file begins with the header of its channel and holds no other header.
C4_HeaderDiscipline ==
    (pc = "done" /\ run = 1)
        => \A p \in DOMAIN files :
              /\ files[p][1] = HeaderLine(HeaderOf(p))
              /\ \A i \in 2..Len(files[p]) : ~IsHeaderLine(files[p][i])

\* C5: the requests of poll_bars sent during the last 60 seconds of the
\* injected clock are never more than 30.
C5_RateLimit == Len(window) <= 30

\* 30 requests were sent within 60 seconds, after a pacing sleep
C5_Witness == Len(window) = 30 /\ clock >= 60 /\ pc = "poll_bars"

\* C6: with an archive source that always answers 500, the requests are
\* all for the first day, ten at most and 10 seconds apart; the program has
\* ended with the error exactly when the tenth was sent; nothing is
\* written, reported or returned.
C6_RetryExhaustion ==
    (source = {500} /\ start <= end)
        => /\ day = start
           /\ Len(attempts) <= 10
           /\ \A i \in 2..Len(attempts) : attempts[i] = attempts[i - 1] + 10
           /\ (Len(attempts) = 10) <=> (pc = "crashed")
           /\ files = << >> /\ touched = {}
           /\ report = << >> /\ printed = None
           /\ pc \in {"main_trades", "main_quotes", "poll_quotes_trades", "crashed"}

\* the error has ended the program after the tenth request
C6_Witness == source = {500} /\ pc = "crashed" /\ Len(attempts) = 10

\* C7: the step in which the tenth failed attempt at a day is answered 404
\* returns the "not (yet) available" status to main when the day is today
\* or yesterday, and ends the program with the error when it is not; in
\* both cases no file changes and no later day is attempted.
C7_NotYetAvailable ==
    [][ (pc = "poll_quotes_trades" /\ count = 9 /\ count' = 10 /\ status' = 404)
          => /\ files' = files /\ day' = day
             /\ IF \/ day \div Day = today \div Day
                   \/ day \div Day = (today \div Day) - 1
                THEN /\ pc' \in {"main_quotes", "main_bars"}
                     /\ report' = report @@
                            (channel \o "s" :> << "Failed to download: ",
                                                  DateStr(day \div Day),
                                                  " - data not (yet) available." >>)
                ELSE /\ pc' = "crashed"
                     /\ report' = report ]_vars

\* the run has completed with the status for the second day of the range,
\* and the file of the first day in place
C7_Witness ==
    /\ pc = "done"
    /\ day > start
    /\ \E c \in DOMAIN report : report[c] # Success
    /\ files # << >>

\* C8: when the program has ended, the printed report has a line for every
\* requested channel.
C8_ReportEveryChannel ==
    pc \in {"done", "crashed"}
        => /\ printed # None
           /\ \A c \in channels : c \in DOMAIN printed[1]

\* the rows of the page that are not later than the end date
InRange(data) ==
    {i \in 1..Len(data) : ParseDate(data[i]["timestamp"]) <= end \div Day}

\* C9: no bar file is ever named after a date later than the end date, and
\* the step that stores a page leaves every row of the page that is not
\* later than the end date in the file of the row's date.
C9_EndBoundary ==
    [][ /\ \A p \in DOMAIN files' : IsBarsPath(p) => FileDate(p) <= end \div Day
        /\ (pc = "poll_bars" /\ st' > st /\ page' # << >>)
              => \A i \in InRange(page') :
                    \E p \in DOMAIN files' :
                       /\ p = BarsFile(symbols[symIdx], "bars", bars[barIdx],
                                       ParseDate(page'[i]["timestamp"]))
                       /\ DictLine(page'[i]) \in Range(files'[p]) ]_vars

\* a page with rows up to the end date, stored, and a row after it, dropped
C9_Witness ==
    /\ pc = "poll_bars"
    /\ InRange(page) # {}
    /\ InRange(page) # 1..Len(page)
    /\ \A i \in InRange(page) :
          \E p \in DOMAIN files : DictLine(page[i]) \in Range(files[p])

\* C10: every row of every file carries, in its timestamp, the date that
\* the file's path names.
C10_Partition ==
    \A p \in DOMAIN files :
        \A i \in 1..Len(files[p]) :
            ~IsHeaderLine(files[p][i])
                => LET d == ParseDate(files[p][i][1])
                   IN  /\ p[Len(p)] = DateStr(d) \o ".csv"
                       /\ p[Len(p) - 1] = ToString(Month(d))
                       /\ p[Len(p) - 2] = ToString(Year(d))

\* C11: the pair that _validate_dates returns has its start on or after
\* 2014-11-22, its end on or after its start, and its end on or before
\* today.
C11_DateRange ==
    pc = "validated" => (start >= 0 /\ end >= start /\ end <= today)

\* C12: the step that stores the archive of a day leaves, in every file it
\* has written, rows of that archive only, each with the "D" between date
\* and time replaced by "T" and with its other fields, the symbol among
\* them, as the archive has them.
C12_SeparatorOnly ==
    [][ (pc = "poll_quotes_trades" /\ day' = day + 1440)
          => LET rows == ArchiveRows(channel, day)
             IN  \A p \in touched' \ touched :
                    \A k \in 1..Len(files'[p]) :
                        LET line == files'[p][k]
                        IN  ~IsHeaderLine(line)
                                => /\ line[1][2] = "T"
                                   /\ \E i \in 2..Len(rows) :
                                         /\ rows[i][1][2] = "D"
                                         /\ line = << << rows[i][1][1], "T",
                                                         rows[i][1][3] >>,
                                                      rows[i][2], rows[i][3] >> ]_vars

\* a file of the second symbol holds a row, after a row of the first symbol
C12_Witness ==
    \E p \in DOMAIN files :
        /\ p[1] = "ETHUSD" /\ p[2] \in {"trades", "quotes"}
        /\ \E k \in 1..Len(files[p]) :
              /\ ~IsHeaderLine(files[p][k])
              /\ files[p][k][1][2] = "T"
              /\ files[p][k][2] = ETH

\* C13: no day's archive is requested more than ten times, and once the
\* tenth request of a day has failed the function has returned the "not
\* (yet) available" status or the program has ended with the error.
C13_TenRequests ==
    /\ Len(attempts) <= 10
    /\ Len(attempts) = 10 => pc # "poll_quotes_trades"

\* C14: within the walk of one symbol and one resolution, a step leaves
\* every file of the walk that the run has already written with the lines
\* it had, in their order, and adds rows only: the file is not removed a
\* second time and gets no second header.
C14_OncePerWalk ==
    [][ (pc = "poll_bars" /\ pc' = "poll_bars"
            /\ symIdx' = symIdx /\ barIdx' = barIdx)
          => \A p \in touched :
                (p[1] = Join(symbols[symIdx]) /\ p[3] = bars[barIdx])
                    => /\ p \in DOMAIN files'
                       /\ Len(files'[p]) >= Len(files[p])
                       /\ SubSeq(files'[p], 1, Len(files[p])) = files[p]
                       /\ \A k \in (Len(files[p]) + 1)..Len(files'[p]) :
                             ~IsHeaderLine(files'[p][k]) ]_vars

\* C15: the provider holds at most one bar in each bucket of each requested
\* resolution and none at the instant end + 1 day; when poll_bars has
\* completed, every bar that the provider holds from the start to the end
\* date is exactly once in the file of its date, for every symbol and
\* resolution.
C15_ExactlyOnce ==
    (/\ pc = "done"
     /\ end + Day \notin held
     /\ \A j \in 1..Len(bars) :
           LET w == IF bars[j] = "1m" THEN 1
                    ELSE IF bars[j] = "5m" THEN 5
                    ELSE IF bars[j] = "1h" THEN 60 ELSE 1440
           IN  \A t1 \in held, t2 \in held : t1 # t2 => t1 \div w # t2 \div w)
        => \A i \in 1..Len(symbols), j \in 1..Len(bars), t \in held :
              (start <= t /\ t < end + Day)
                  => LET p    == BarsFile(symbols[i], "bars", bars[j], DateOf(t))
                         line == DictLine([timestamp |-> Stamp(t, "T"),
                                           symbol |-> symbols[i]])
                     IN  /\ p \in DOMAIN files
                         /\ Cardinality({k \in 1..Len(files[p]) :
                                            files[p][k] = line}) = 1

\* C16: counting every request that poll_bars sends, the 429 retries among
\* them, the 60 seconds of the pacing sleep are slept in front of the 30th,
\* 60th, 90th, ... request and in front of no other: the first pacing sleep
\* comes when 29 requests have been sent.
C16_BeforeThirtieth ==
    [][ (sent' = sent + 1)
          => (window'[Len(window')] = clock + 60 <=> (sent + 1) % 30 = 0) ]_vars

\* the 60th request has been sent, after the second pacing sleep
C16_Witness == sent = 60 /\ req = 0 /\ clock >= 120

\* C16 as the specification words it: the pacing sleep comes after the
\* 30th, 60th, 90th, ... request and before the next one.
C16_AfterThirtieth ==
    [][ (sent' = sent + 1)
          => (window'[Len(window')] = clock + 60
                 <=> (sent > 0 /\ sent % 30 = 0)) ]_vars

C18_Termination ==
    /\ [][ (sent' = sent + 1)
             => /\ pc = "poll_bars" /\ st < end + 1440
                /\ ~error'
                      => st' = IF page' = << >> THEN st + 1440
                               ELSE IF bars[barIdx] = "1m" THEN st + 500
                               ELSE IF bars[barIdx] = "5m" THEN st + 2500
                               ELSE IF bars[barIdx] = "1h" THEN st + 30000
                               ELSE st + 720000 ]_vars
    /\ (pc = "poll_bars")
          ~> (/\ pc = "main_report"
              /\ "bars" \in DOMAIN report
              /\ report["bars"] = << "Success - all data downloaded and stored." >>)

\* the walks of two resolutions have ended with the success status, after
\* a 429 and stored pages
C18_Witness ==
    /\ pc = "main_report" /\ "bars" \in DOMAIN report
    /\ Len(bars) = 2 /\ n429 >= 1 /\ files # << >> /\ sent >= 3

\* C19: the step that stores the archive of a day writes the file of a
\* requested symbol for that day exactly when the archive has a row of that
\* symbol, and leaves the file as it was, absent or not, when it has none;
\* it creates and changes no other file, and no row of a symbol that was
\* not requested is in any file.
C19_MatchingRowsOnly ==
    [][ (pc = "poll_quotes_trades" /\ day' = day + 1440)
          => LET mine == {QuotesTradesFile(s, channel, day) : s \in Range(symbols)}
             IN  /\ \A s \in Range(symbols) :
                       LET p == QuotesTradesFile(s, channel, day)
                       IN  /\ p \in touched'
                              <=> \E i \in 1..Len(archive) : archive[i][1] = s
                           /\ p \in touched' => p \in DOMAIN files'
                           /\ p \notin touched'
                                 => /\ p \in DOMAIN files' <=> p \in DOMAIN files
                                    /\ p \in DOMAIN files => files'[p] = files[p]
                 /\ \A q \in (DOMAIN files \cup DOMAIN files') \ mine :
                       /\ q \in DOMAIN files /\ q \in DOMAIN files'
                       /\ files'[q] = files[q]
                 /\ touched' \subseteq touched \cup mine
                 /\ \A q \in DOMAIN files' :
                       \A k \in 1..Len(files'[q]) :
                           ~IsHeaderLine(files'[q][k])
                               => files'[q][k][2] \in Range(symbols) ]_vars

\* the archive of a day has been stored: it had rows of the second
\* requested symbol and of a symbol not requested, and none of the first
C19_Witness ==
    /\ Len(symbols) = 2 /\ day > start
    /\ \E i \in 1..Len(archive) : archive[i][1] = ADA
    /\ \E p \in DOMAIN files : p[1] = "ETHUSD"
    /\ \A p \in DOMAIN files : p[1] # "XBTUSD"

====
